---- MODULE Spec2Model ----
(***************************************************************************)
(* A model of sled's page pointer (src/pagecache/pointer.rs): the 8-byte   *)
(* tagged PagePointer, its decoded view PointerRead, SizeClass,            *)
(* TruncatedLogOffset and the persisted records the pointers address.      *)
(*                                                                         *)
(* Unsigned machine integers are sequences of 16-bit limbs, least          *)
(* significant limb first (u32: 2 limbs, u64 and usize: 4 limbs), so that  *)
(* 48- and 64-bit values stay exact.  Byte arrays are sequences of bytes,  *)
(* index 1 being Rust's index 0.                                           *)
(*                                                                         *)
(* A fallible operation returns Ok(v) or Panic.  Where the result depends  *)
(* on the build (overflow checks on: panic; off: wrap), the operation      *)
(* takes the flag oc ("overflow checks") as an input.                      *)
(***************************************************************************)
EXTENDS Integers, Sequences, FiniteSets

VARIABLES
    call,      \* the last operation called, with its inputs
    ret,       \* what that operation returned
    mem,       \* resident records by address, as that operation saw them
    slot,      \* page table: the PagePointer of the one page id modelled
    status,    \* address -> "free" | "live" | "retired" (handed over, not yet destroyed)
    pending,   \* address -> the threads whose guards must end before destruction
    handed,    \* address -> times its record was handed to the reclamation subsystem
    superseded,\* address -> the pointer to its record was replaced in the slot
    pinned,    \* thread -> holds a guard
    pc,        \* thread -> "idle" | "pinned" | "loaded" | "swapped"
    obs        \* thread -> the pointer value it loaded under its guard

vars == <<call, ret, mem, slot, status, pending, handed, superseded, pinned, pc, obs>>
pureVars == <<call, ret, mem>>
tableVars == <<slot, status, pending, handed, superseded, pinned, pc, obs>>

(***************************************************************************)
(* Results                                                                 *)
(***************************************************************************)
Ok(v) == [ok |-> TRUE, val |-> v]
Panic == [ok |-> FALSE, ub |-> FALSE]
\* Undefined behaviour: the caller expands it into every outcome a build can give.
UB == [ok |-> FALSE, ub |-> TRUE]
Outcomes(r, any) == IF ~r.ok /\ r.ub THEN any ELSE {r}

(***************************************************************************)
(* Machine integers                                                        *)
(***************************************************************************)
LimbBase == 65536
LimbBits == 16
MIN_TRAILING_ZEROS == 15

Zero(k) == [i \in 1..k |-> 0]
IsZero(n) == \A i \in 1..Len(n) : n[i] = 0
Width(n) == LimbBits * Len(n)

\* 2^e as a k-limb integer, e < 16 * k.
Pow2(e, k) == [i \in 1..k |-> IF i = (e \div LimbBits) + 1 THEN 2 ^ (e % LimbBits) ELSE 0]

\* a < b for integers of the same width.
Lt(a, b) == \E i \in 1..Len(a) : a[i] < b[i] /\ \A j \in (i + 1)..Len(a) : a[j] = b[j]
Le(a, b) == a = b \/ Lt(a, b)

\* n widened to k limbs.
Widen(n, k) == [i \in 1..k |-> IF i <= Len(n) THEN n[i] ELSE 0]

LowestSet(n) == CHOOSE i \in 1..Len(n) : n[i] # 0 /\ \A j \in 1..(i - 1) : n[j] = 0
HighestSet(n) == CHOOSE i \in 1..Len(n) : n[i] # 0 /\ \A j \in (i + 1)..Len(n) : n[j] = 0

\* n - 1, n # 0.
Dec(n) ==
    LET j == LowestSet(n)
    IN  [i \in 1..Len(n) |-> IF i < j THEN LimbBase - 1 ELSE IF i = j THEN n[i] - 1 ELSE n[i]]

BitLen16(x) == CHOOSE k \in 0..LimbBits : x < 2 ^ k /\ (k = 0 \/ x >= 2 ^ (k - 1))
Tz16(x) == CHOOSE k \in 0..(LimbBits - 1) : x % (2 ^ k) = 0 /\ (x \div (2 ^ k)) % 2 = 1

leading_zeros(n) ==
    IF IsZero(n) THEN Width(n)
    ELSE Width(n) - (LimbBits * (HighestSet(n) - 1) + BitLen16(n[HighestSet(n)]))

trailing_zeros(n) ==
    IF IsZero(n) THEN Width(n)
    ELSE LimbBits * (LowestSet(n) - 1) + Tz16(n[LowestSet(n)])

to_le_bytes(n) ==
    [i \in 1..(2 * Len(n)) |->
        IF i % 2 = 1 THEN n[(i + 1) \div 2] % 256 ELSE n[i \div 2] \div 256]

from_le_bytes(b) ==
    [i \in 1..(Len(b) \div 2) |-> b[2 * i - 1] + 256 * b[2 * i]]

\* A faulty rounding that C10 must reject: it counts the leading zeros of n
\* rather than of n - 1, so a power of two is rounded to its double.
next_power_of_two_OfN(n, oc) ==
    IF IsZero(n) THEN Ok(Pow2(0, Len(n)))
    ELSE LET z == leading_zeros(n)
         IN  IF z > 0 THEN Ok(Pow2(Width(n) - z, Len(n)))
             ELSE IF oc THEN Panic ELSE Ok(Zero(Len(n)))

\* (MAX >> z) + 1 of one_less_than_next_power_of_two: 2^(width - z), which
\* overflows when z = 0.
next_power_of_two(n, oc) ==
    IF IsZero(n) \/ n = Pow2(0, Len(n)) THEN Ok(Pow2(0, Len(n)))
    ELSE LET z == leading_zeros(Dec(n))
         IN  IF z > 0 THEN Ok(Pow2(Width(n) - z, Len(n)))
             ELSE IF oc THEN Panic ELSE Ok(Zero(Len(n)))

\* quotient of n by the small divisor d, 0 < d <= 2^15, limb by limb from the top.
RECURSIVE DivRem(_, _, _)
DivRem(n, d, i) ==
    IF i > Len(n) THEN [q |-> n, r |-> 0]
    ELSE LET hi == DivRem(n, d, i + 1)
             cur == hi.r * LimbBase + n[i]
         IN  [q |-> [hi.q EXCEPT ![i] = cur \div d], r |-> cur % d]
Div(n, d) == DivRem(n, d, 1).q

(***************************************************************************)
(* SizeClass                                                               *)
(***************************************************************************)
\* 1 << self.0 on usize; a shift by 64 or more overflows.
size(e, oc) ==
    IF e < 64 THEN Ok(Pow2(e, 4))
    ELSE IF oc THEN Panic ELSE Ok(Pow2(e % 64, 4))

\* From<u32>, From<u64>, From<usize>: the width is that of n.
SizeClass_from(n, oc) ==
    LET np == next_power_of_two(n, oc)
    IN  IF np.ok THEN Ok(trailing_zeros(np.val)) ELSE Panic

(***************************************************************************)
(* TruncatedLogOffset                                                      *)
(***************************************************************************)
to_lid(t) == from_le_bytes(<<t[1], t[2], t[3], t[4], t[5], t[6], 0, 0>>)

\* assert_eq!(arr[6..7], [0, 0]): the one-element slice against a
\* two-element array.
TLO_from_u64(from) ==
    LET arr == to_le_bytes(from)
    IN  IF SubSeq(arr, 7, 7) = <<0, 0>>
        THEN Ok(<<arr[1], arr[2], arr[3], arr[4], arr[5], arr[6]>>)
        ELSE Panic

(***************************************************************************)
(* PointerKind and PagePointer                                             *)
(***************************************************************************)
InMemory == 0
Heap == 1
Log == 2
LogAndHeap == 3
Free == 4
Unassigned == 5
DefinedKinds == {InMemory, Heap, Log, LogAndHeap, Free}

\* PagePointer::default()
Default == <<0, 0, 0, 0, 0, 0, 0, Unassigned>>

\* self.0[7], the byte that holds the kind.
KindByte(p) == p[8]

\* transmute of that byte to PointerKind: undefined for a byte that is no
\* PointerKind (a build with debug assertions aborts, an optimised one
\* carries the byte on).
kind(p) == IF KindByte(p) \in DefinedKinds \cup {Unassigned} THEN Ok(KindByte(p)) ELSE UB

\* The arms of read()'s match, for the kind k.
Decode(p, k) ==
    LET size_po2 == p[7]
        base == <<p[1], p[2], p[3], p[4], p[5], p[6]>>
        addr == from_le_bytes(<<p[1], p[2], p[3], p[4], p[5], p[6], 0, 0>>)
    IN  CASE k = InMemory -> [tag |-> "InMemory", size_po2 |-> size_po2, ptr |-> addr]
          [] k = Heap -> [tag |-> "Heap", size_po2 |-> size_po2,
                          heap_index |-> from_le_bytes(<<p[1], p[2], p[3], p[4]>>)]
          [] k = Log -> [tag |-> "Log", size_po2 |-> size_po2, base |-> base]
          [] k = Free -> [tag |-> "Free", base |-> base]
          [] k = LogAndHeap -> [tag |-> "LogAndHeap", size_po2 |-> size_po2, ptr |-> addr]

\* read(): the match has no arm for Unassigned, and a byte above 5 is no
\* PointerKind at all: both are undefined.
read(p) ==
    LET k == kind(p)
    IN  IF k.ok /\ k.val \in DefinedKinds THEN Ok(Decode(p, k.val)) ELSE UB

\* What read() may do on a pointer: its result, or on an undefined kind a
\* crash or any arm of the match.
ReadOutcomes(p) == Outcomes(read(p), {Panic} \cup {Ok(Decode(p, k)) : k \in DefinedKinds})

\* PagePointer::lid, as the Option's iterator: one offset or none.  The
\* pointer's kind is defined.
lid(p) ==
    LET r == read(p).val
    IN  IF r.tag \in {"Log", "Free"} THEN <<to_lid(r.base)>> ELSE <<>>

is_heap_item(p) ==
    LET k == kind(p)
    IN  IF k.ok THEN Ok(k.val = LogAndHeap \/ k.val = Heap) ELSE k

\* u8 arithmetic: overflow panics under overflow checks and wraps without.
U8(x, oc) == IF x \in 0..255 THEN Ok(x) ELSE IF oc THEN Panic ELSE Ok(x % 256)

heap_id(p, oc) ==
    LET r == read(p)
    IN  IF ~r.ok THEN r
        ELSE IF r.val.tag = "Heap"
        THEN LET slab == U8(r.val.size_po2 - MIN_TRAILING_ZEROS, oc)
             IN  IF slab.ok THEN Ok([slab |-> slab.val, index |-> r.val.heap_index])
                 ELSE Panic
        ELSE Panic

new_in_memory(size_po2, node) ==
    LET ptr_arr == to_le_bytes(node)
    IN  IF SubSeq(ptr_arr, 7, 7) = <<0, 0>>
        THEN Ok(<<ptr_arr[1], ptr_arr[2], ptr_arr[3], ptr_arr[4], ptr_arr[5], ptr_arr[6],
                  size_po2, InMemory>>)
        ELSE Panic

\* A faulty constructor that C9 must reject: it stores the slab without
\* adding MIN_TRAILING_ZEROS.
new_heap_BareSlab(h, oc) ==
    LET index_arr == to_le_bytes(h.index)
    IN  Ok(<<index_arr[1], index_arr[2], index_arr[3], index_arr[4], 0, 0, h.slab, Heap>>)

new_heap(h, oc) ==
    LET size_po2 == U8(h.slab + MIN_TRAILING_ZEROS, oc)
        index_arr == to_le_bytes(h.index)
    IN  IF size_po2.ok
        THEN Ok(<<index_arr[1], index_arr[2], index_arr[3], index_arr[4], 0, 0,
                  size_po2.val, Heap>>)
        ELSE Panic

new_log(size_class, at) ==
    LET t == TLO_from_u64(at)
    IN  IF t.ok
        THEN Ok(<<t.val[1], t.val[2], t.val[3], t.val[4], t.val[5], t.val[6],
                  size_class, LogAndHeap>>)
        ELSE Panic

new_free(at) ==
    LET t == TLO_from_u64(at)
    IN  IF t.ok
        THEN Ok(<<t.val[1], t.val[2], t.val[3], t.val[4], t.val[5], t.val[6], 0, Free>>)
        ELSE Panic

\* todo!("allocate LogAndHeap") comes before anything is built.
new_log_and_heap(sz, at, h, lsn) == Panic

(***************************************************************************)
(* PointerRead and the persisted records                                   *)
(***************************************************************************)
\* Shared::deref of an address as a record of type ty: the record there, or
\* undefined when no record of that type lives there.
Deref(m, ptr, ty) ==
    IF ptr \in DOMAIN m /\ m[ptr].type = ty THEN Ok(m[ptr]) ELSE UB

as_log_and_heap(m, rd) ==
    IF rd.tag = "LogAndHeap" THEN Deref(m, rd.ptr, "LogAndHeap") ELSE Panic

\* A faulty accessor that C8 must reject: it dereferences whatever address
\* the pointer holds, of either record kind.
as_node_AnyRecord(m, rd) ==
    IF rd.tag \in {"InMemory", "LogAndHeap"} THEN Ok(m[rd.ptr]) ELSE Panic

as_node(m, rd) ==
    IF rd.tag = "InMemory" THEN Deref(m, rd.ptr, "PersistedNode") ELSE Panic

as_meta(m, rd) ==
    IF rd.tag = "InMemory" THEN Deref(m, rd.ptr, "PersistedMeta") ELSE Panic

as_counter(m, rd) ==
    IF rd.tag = "InMemory" THEN Deref(m, rd.ptr, "PersistedCounter") ELSE Panic

LogAndHeap_lid(rec) == to_lid(rec.log_offset)
\* Some(ptr.deref().lid()), as the Option's iterator.
SomeLid(rec) == <<LogAndHeap_lid(rec)>>

RECURSIVE FilterMapLid(_)
FilterMapLid(frags) ==
    IF frags = <<>> THEN <<>> ELSE lid(Head(frags)) \o FilterMapLid(Tail(frags))

\* A faulty enumeration that C6 must reject: the fragments before the base.
PersistedNode_iter_lids_FragsFirst(node) == FilterMapLid(node.frags) \o lid(node.base)

PersistedNode_iter_lids(node) == lid(node.base) \o FilterMapLid(node.frags)

\* The offset of a meta or counter record's base, as the Option's iterator.
BaseLid(rec) == lid(rec.base)

iter_lids(m, rd, pid) ==
    CASE rd.tag = "Heap" -> Ok(<<>>)
      [] rd.tag \in {"Free", "Log"} -> Ok(<<to_lid(rd.base)>>)
      [] rd.tag = "LogAndHeap" ->
            LET rec == Deref(m, rd.ptr, "LogAndHeap")
            IN  IF rec.ok THEN Ok(SomeLid(rec.val)) ELSE rec
      [] rd.tag = "InMemory" ->
            IF pid = 0
            THEN LET meta == as_meta(m, rd)
                 IN  IF meta.ok THEN Ok(BaseLid(meta.val)) ELSE meta
            ELSE IF pid = 1
            THEN LET counter == as_counter(m, rd)
                 IN  IF counter.ok THEN Ok(BaseLid(counter.val)) ELSE counter
            ELSE LET node == as_node(m, rd)
                 IN  IF node.ok THEN Ok(PersistedNode_iter_lids(node.val)) ELSE node

\* segment_size is given by its value, at most 2^15; pid is not read.
exists_on_segment(m, rd, segment, segment_size, pid) ==
    IF segment_size = 0 THEN Panic
    ELSE LET sid == Div(segment, segment_size)
             node == as_node(m, rd)
         IN  IF node.ok
             THEN LET lids == PersistedNode_iter_lids(node.val)
                  IN  Ok(\E i \in 1..Len(lids) : Div(lids[i], segment_size) = sid)
             ELSE node

log_size(rd, oc) ==
    IF rd.tag \in {"Heap", "Log", "LogAndHeap", "InMemory"} THEN size(rd.size_po2, oc)
    ELSE Ok(Zero(4))

\* A faulty reclamation that C3 must reject: the record is dropped at once
\* instead of being handed to the guard.
defer_destroy_DropNow(rd) ==
    IF rd.tag \in {"LogAndHeap", "InMemory"}
    THEN [deferred |-> {}, dropped |-> {rd.ptr}]
    ELSE [deferred |-> {}, dropped |-> {}]

\* What defer_destroy does with the addressed record: hands it to the guard
\* (deferred) or not; it never drops it on the spot.
defer_destroy(rd) ==
    IF rd.tag \in {"LogAndHeap", "InMemory"}
    THEN [deferred |-> {rd.ptr}, dropped |-> {}]
    ELSE [deferred |-> {}, dropped |-> {}]

\* The pointer after forget_heap_log_coordinates.
forget_heap_log_coordinates(m, p, oc) ==
    LET r == read(p)
    IN  IF ~r.ok THEN r
        ELSE IF r.val.tag = "LogAndHeap"
        THEN LET rec == as_log_and_heap(m, r.val)
             IN  IF rec.ok THEN new_heap(rec.val.heap_id, oc) ELSE rec
        ELSE Ok(p)

(***************************************************************************)
(* Inputs                                                                  *)
(***************************************************************************)
MaxFrags == 3

Bool == {TRUE, FALSE}

\* Exponents e around which integer inputs are taken: 2^e - 1, 2^e, 2^e + 1.
ExpSamples == {0, 1, 2, 3, 8, 15, 16, 17, 31, 32, 33, 47, 48, 62, 63}

Max(k) == [i \in 1..k |-> LimbBase - 1]
Inc(n) == [n EXCEPT ![1] = @ + 1]
Around(k) ==
    LET es == {e \in ExpSamples : e < LimbBits * k}
    IN  {Zero(k), Max(k)} \cup {Pow2(e, k) : e \in es} \cup {Dec(Pow2(e, k)) : e \in es}
        \cup {Inc(Pow2(e, k)) : e \in es \ {0}}

U32Samples == Around(2)
U64Samples == Around(4)
IntTypes == {"u32", "u64", "usize"}
SamplesOf(ty) == IF ty = "u32" THEN U32Samples ELSE U64Samples

\* Addresses of resident records (below 2^48) and one that is not.
Addr(i) == <<64 * i, 16384 + i, 3, 0>>
WideAddr == <<64, 16384, 3, 1>>

\* Log offsets below 2^48: 2048, 1024, 5000, 65536 and one close to 2^48.
Offsets == {<<2048, 0, 0, 0>>, <<1024, 0, 0, 0>>, <<5000, 0, 0, 0>>,
            <<0, 1, 0, 0>>, <<4660, 22136, 65535, 0>>}

SlabSamples == {0, 1, 2, 31, 48, 49, 100, 240, 241, 255}
IndexSamples == {<<0, 0>>, <<7, 0>>, <<256, 0>>, <<4660, 22136>>, <<65535, 65535>>}
HeapIds == {[slab |-> sl, index |-> ix] : sl \in SlabSamples, ix \in IndexSamples}
SizeBytes == {0, 12, 17, 63, 64, 200}
KindBytes == {InMemory, Heap, Log, LogAndHeap, Free, Unassigned, 6, 255}

\* A pointer as the struct literal PagePointer([..]) lays it out.
MkPtr(payload, size_po2, k) ==
    <<payload[1], payload[2], payload[3], payload[4], payload[5], payload[6], size_po2, k>>

\* A pointer described by its kind k and its payload as an integer off (an
\* offset, an address or a heap index).
Descs(ks, offs) == {[k |-> k, off |-> o] : k \in ks, o \in offs}
PtrOf(d) == MkPtr(to_le_bytes(d.off), 12, d.k)
\* The log offset a described pointer carries, if any.
DescLid(d) == IF d.k \in {Log, Free} THEN <<d.off>> ELSE <<>>

BaseDescs == Descs({Log, Free}, {<<2048, 0, 0, 0>>, <<4660, 22136, 65535, 0>>})
             \cup Descs({Heap}, {<<7, 0, 0, 0>>}) \cup Descs({InMemory}, {Addr(3)})
FragDescs == Descs({Log}, {<<1024, 0, 0, 0>>}) \cup Descs({Free}, {<<0, 1, 0, 0>>})
             \cup Descs({Heap}, {<<2048, 0, 0, 0>>}) \cup Descs({LogAndHeap}, {Addr(2)})

RECURSIVE SeqsUpTo(_, _)
SeqsUpTo(S, n) ==
    IF n = 0 THEN {<<>>}
    ELSE LET shorter == SeqsUpTo(S, n - 1)
         IN  shorter \cup {Append(q, x) : q \in {r \in shorter : Len(r) = n - 1}, x \in S}

RECURSIVE MapPtr(_)
MapPtr(ds) == IF ds = <<>> THEN <<>> ELSE <<PtrOf(Head(ds))>> \o MapPtr(Tail(ds))
RECURSIVE FlatLids(_)
FlatLids(ds) == IF ds = <<>> THEN <<>> ELSE DescLid(Head(ds)) \o FlatLids(Tail(ds))

NodeRec(b, fs) == [type |-> "PersistedNode", base |-> PtrOf(b), frags |-> MapPtr(fs)]
MetaRec(b) == [type |-> "PersistedMeta", base |-> PtrOf(b), frags |-> <<>>]
CounterRec(b) == [type |-> "PersistedCounter", base |-> PtrOf(b), frags |-> <<>>]
LahRec(o, h) == [type |-> "LogAndHeap", log_offset |-> SubSeq(to_le_bytes(o), 1, 6),
                 heap_id |-> h]

\* The memory with the single record rec at Addr(1).
MemOf(rec) == [a \in {Addr(1)} |-> rec]
NoMem == [a \in {} |-> 0]

\* The pointers whose decoding the calls below exercise: what they are (the
\* variant, the resident record) and the inputs they were built from.
Subjects ==
    {[variant |-> v, p |-> MkPtr(to_le_bytes(o), 12, IF v = "Log" THEN Log ELSE Free),
      off |-> o, base |-> [k |-> Heap, off |-> o], frags |-> <<>>, m |-> NoMem]
        : v \in {"Log", "Free"}, o \in Offsets}
    \cup
    {[variant |-> "Heap", p |-> MkPtr(to_le_bytes(o), 17, Heap),
      off |-> o, base |-> [k |-> Heap, off |-> o], frags |-> <<>>, m |-> NoMem]
        : o \in {<<7, 0, 0, 0>>, <<2048, 0, 0, 0>>}}
    \cup
    {[variant |-> "LogAndHeap", p |-> MkPtr(to_le_bytes(Addr(1)), 17, LogAndHeap),
      off |-> o, base |-> [k |-> Heap, off |-> o], frags |-> <<>>,
      m |-> MemOf(LahRec(o, [slab |-> 2, index |-> <<7, 0>>]))]
        : o \in Offsets}
    \cup
    {[variant |-> v, p |-> MkPtr(to_le_bytes(Addr(1)), 12, InMemory),
      off |-> Zero(4), base |-> b, frags |-> <<>>,
      m |-> MemOf(IF v = "Meta" THEN MetaRec(b) ELSE CounterRec(b))]
        : v \in {"Meta", "Counter"}, b \in BaseDescs}
    \cup
    {[variant |-> "Node", p |-> MkPtr(to_le_bytes(Addr(1)), 12, InMemory),
      off |-> Zero(4), base |-> b, frags |-> fs, m |-> MemOf(NodeRec(b, fs))]
        : b \in BaseDescs, fs \in SeqsUpTo(FragDescs, MaxFrags)}

\* The page id a record of that variant is read through.
PidsOf(v) ==
    CASE v = "Meta" -> {0}
      [] v = "Counter" -> {1}
      [] v = "Node" -> {2, 7}
      [] OTHER -> {0, 1, 2}

Idle == [op |-> "idle"]
NoRet == [none |-> TRUE]

(***************************************************************************)
(* Initial state                                                           *)
(***************************************************************************)
NThreads == 2
Threads == 1..NThreads
\* The addresses the allocator hands out, reusing them once destroyed.
TableAddrs == {Addr(1), Addr(2)}

\* The page starts out free, at log offset 0.
FreeAtZero == <<0, 0, 0, 0, 0, 0, 0, Free>>
NoRecord == [type |-> "none"]

TableInit ==
    /\ slot = FreeAtZero
    /\ status = [a \in TableAddrs |-> "free"]
    /\ pending = [a \in TableAddrs |-> {}]
    /\ handed = [a \in TableAddrs |-> 0]
    /\ superseded = [a \in TableAddrs |-> FALSE]
    /\ pinned = [t \in Threads |-> FALSE]
    /\ pc = [t \in Threads |-> "idle"]
    /\ obs = [t \in Threads |-> FreeAtZero]

Init ==
    /\ call = Idle
    /\ ret = NoRet
    /\ mem = NoMem
    /\ TableInit

(***************************************************************************)
(* Calls of the pure operations: one call from the idle state, then Return *)
(***************************************************************************)
Called(c, r, m) ==
    /\ call' = c
    /\ ret' = r
    /\ mem' = m
    /\ UNCHANGED tableVars

Return ==
    /\ call # Idle
    /\ call' = Idle
    /\ ret' = NoRet
    /\ mem' = NoMem
    /\ UNCHANGED tableVars

\* SizeClass::from(n).size() for two integers of one type.
SizeOf(n, oc) ==
    LET c == SizeClass_from(n, oc)
    IN  [class |-> c, size |-> IF c.ok THEN size(c.val, oc) ELSE Panic]

CallSizeClassFrom ==
    /\ call = Idle
    /\ \E ty \in IntTypes, oc \in Bool :
         \E n1 \in SamplesOf(ty), n2 \in SamplesOf(ty) :
           Called([op |-> "SizeClass_from", ty |-> ty, oc |-> oc, n1 |-> n1, n2 |-> n2],
                  [r1 |-> SizeOf(n1, oc), r2 |-> SizeOf(n2, oc)], NoMem)

\* TruncatedLogOffset::from_u64(n), then to_lid() on what it returned.
CallTruncate ==
    /\ call = Idle
    /\ \E n \in U64Samples \cup Offsets :
           LET t == TLO_from_u64(n)
           IN  Called([op |-> "TLO_from_u64", n |-> n],
                      [t |-> t, back |-> IF t.ok THEN Ok(to_lid(t.val)) ELSE Panic], NoMem)

CallNewInMemory ==
    /\ call = Idle
    /\ \E sz \in SizeBytes, a \in {Addr(1), WideAddr}, b \in BaseDescs :
           Called([op |-> "new_in_memory", size_po2 |-> sz, node |-> a],
                  [ptr |-> new_in_memory(sz, a)], [x \in {a} |-> NodeRec(b, <<>>)])

CallNewHeap ==
    /\ call = Idle
    /\ \E h \in HeapIds, oc \in Bool :
           Called([op |-> "new_heap", heap_id |-> h, oc |-> oc], [ptr |-> new_heap(h, oc)], NoMem)

CallNewLog ==
    /\ call = Idle
    /\ \E sz \in SizeBytes, at \in U64Samples \cup Offsets :
           Called([op |-> "new_log", size_class |-> sz, at |-> at], [ptr |-> new_log(sz, at)], NoMem)

CallNewFree ==
    /\ call = Idle
    /\ \E at \in U64Samples \cup Offsets :
           Called([op |-> "new_free", at |-> at], [ptr |-> new_free(at)], NoMem)

CallNewLogAndHeap ==
    /\ call = Idle
    /\ \E sz \in SizeBytes, at \in Offsets, h \in HeapIds :
           Called([op |-> "new_log_and_heap", size |-> sz, lid |-> at, heap_id |-> h],
                  [ptr |-> new_log_and_heap(sz, at, h, 1)], NoMem)

\* read() on any 8 bytes.
CallRead ==
    /\ call = Idle
    /\ \E k \in KindBytes, sz \in SizeBytes, o \in Offsets :
           LET p == MkPtr(to_le_bytes(o), sz, k)
           IN  \E r \in ReadOutcomes(p) : Called([op |-> "read", p |-> p], [read |-> r], NoMem)

\* kind() and is_heap_item() on a pointer with any kind byte; on a byte that is
\* no PointerKind a build aborts or carries the byte on.
CallKind ==
    /\ call = Idle
    /\ \E k \in KindBytes, sz \in SizeBytes, o \in Offsets :
           LET p == MkPtr(to_le_bytes(o), sz, k)
           IN  \E r \in Outcomes(kind(p), {Panic, Ok(KindByte(p))}),
                  h \in Outcomes(is_heap_item(p), {Panic, Ok(FALSE)}) :
                  Called([op |-> "kind", p |-> p], [kind |-> r, heap_item |-> h], NoMem)

Accessors == {"heap_id", "as_log_and_heap", "as_node", "as_meta", "as_counter"}

Access(acc, m, p, oc) ==
    CASE acc = "heap_id" -> heap_id(p, oc)
      [] acc = "as_log_and_heap" -> as_log_and_heap(m, read(p).val)
      [] acc = "as_node" -> as_node(m, read(p).val)
      [] acc = "as_meta" -> as_meta(m, read(p).val)
      [] acc = "as_counter" -> as_counter(m, read(p).val)

\* A kind-specific accessor on a pointer of a defined kind.  A downcast to
\* another record type than the one resident (as_meta on a node) is undefined.
CallAccessor ==
    /\ call = Idle
    /\ \E acc \in Accessors, s \in Subjects :
         \E oc \in (IF acc = "heap_id" THEN Bool ELSE {TRUE}) :
            \E r \in Outcomes(Access(acc, s.m, s.p, oc),
                              {Panic} \cup {Ok(s.m[a]) : a \in DOMAIN s.m}) :
               Called([op |-> "accessor", acc |-> acc, p |-> s.p, oc |-> oc],
                      [got |-> r], s.m)

CallIterLids ==
    /\ call = Idle
    /\ \E s \in Subjects :
         \E pid \in PidsOf(s.variant) :
           Called([op |-> "iter_lids", variant |-> s.variant, p |-> s.p, pid |-> pid,
                   off |-> s.off, base |-> s.base, frags |-> s.frags],
                  [lids |-> iter_lids(s.m, read(s.p).val, pid)], s.m)

Segments == {<<1024, 0, 0, 0>>, <<2048, 0, 0, 0>>, <<3000, 0, 0, 0>>, <<0, 1, 0, 0>>,
             <<0, 22136, 65535, 0>>}
SegmentSizes == {0, 1, 1024, 4096}

CallExistsOnSegment ==
    /\ call = Idle
    /\ \E s \in Subjects, seg \in Segments, ss \in SegmentSizes :
         \E pid \in PidsOf(s.variant) :
           \E r \in Outcomes(exists_on_segment(s.m, read(s.p).val, seg, ss, pid),
                             {Panic, Ok(TRUE), Ok(FALSE)}) :
               Called([op |-> "exists_on_segment", variant |-> s.variant, p |-> s.p,
                       pid |-> pid, segment |-> seg, segment_size |-> ss],
                      [exists |-> r], s.m)

\* new_heap(h), then heap_id() and read().log_size() on the pointer.
CallHeapRoundTrip ==
    /\ call = Idle
    /\ \E h \in HeapIds, oc \in Bool :
           LET p == new_heap(h, oc)
           IN  Called([op |-> "heap_round_trip", heap_id |-> h, oc |-> oc],
                      [p |-> p,
                       hid |-> IF p.ok THEN heap_id(p.val, oc) ELSE Panic,
                       sz |-> IF p.ok THEN log_size(read(p.val).val, oc) ELSE Panic],
                      NoMem)

Next ==
    \/ CallSizeClassFrom
    \/ CallTruncate
    \/ CallNewInMemory
    \/ CallNewHeap
    \/ CallNewLog
    \/ CallNewFree
    \/ CallNewLogAndHeap
    \/ CallRead
    \/ CallKind
    \/ CallAccessor
    \/ CallIterLids
    \/ CallExistsOnSegment
    \/ CallHeapRoundTrip
    \/ Return

Spec == Init /\ [][Next]_vars

(***************************************************************************)
(* Properties of the pure operations                                       *)
(***************************************************************************)
\* 2 * n, one limb wider than n.
Dbl(n) ==
    [i \in 1..(Len(n) + 1) |->
        (IF i <= Len(n) THEN (2 * n[i]) % LimbBase ELSE 0)
        + (IF i > 1 /\ n[i - 1] >= LimbBase \div 2 THEN 1 ELSE 0)]

\* 2^e below 2^64: the limb that holds bit e carries 2^(e - its lowest bit).
TwoTo(e) ==
    [i \in 1..4 |->
        IF 16 * (i - 1) <= e /\ e < 16 * i THEN 2 ^ (e - 16 * (i - 1)) ELSE 0]

Below48(n) == n[4] = 0

KindName(k) ==
    CASE k = InMemory -> "InMemory" [] k = Heap -> "Heap" [] k = Log -> "Log"
      [] k = LogAndHeap -> "LogAndHeap" [] k = Free -> "Free" [] OTHER -> "undefined"

\* The decoded variant an accessor is specific to.
KindOfAccessor(acc) ==
    CASE acc = "heap_id" -> "Heap"
      [] acc = "as_log_and_heap" -> "LogAndHeap"
      [] OTHER -> "InMemory"

Constructors == {"new_in_memory", "new_heap", "new_log", "new_free", "new_log_and_heap"}
KindOfConstructor(op) ==
    CASE op = "new_in_memory" -> InMemory [] op = "new_heap" -> Heap [] op = "new_log" -> Log
      [] op = "new_free" -> Free [] op = "new_log_and_heap" -> LogAndHeap

\* The call's arguments are ones the constructor is specified for.
ValidArguments ==
    CASE call.op = "new_in_memory" -> Below48(call.node)
      [] call.op = "new_heap" -> call.heap_id.slab + MIN_TRAILING_ZEROS <= 63
      [] call.op = "new_log" -> Below48(call.at)
      [] call.op = "new_free" -> Below48(call.at)
      [] call.op = "new_log_and_heap" -> Below48(call.lid)

\* C1: every constructor, on valid arguments, returns a pointer whose kind
\* byte is the constructor's kind, which read() decodes as that variant and
\* on which every accessor specific to another kind panics.
C1_KindIsolation ==
    (call.op \in Constructors /\ ValidArguments) =>
        /\ ret.ptr.ok
        /\ KindByte(ret.ptr.val) = KindOfConstructor(call.op)
        /\ read(ret.ptr.val).ok
        /\ read(ret.ptr.val).val.tag = KindName(KindOfConstructor(call.op))
        /\ \A acc \in Accessors :
              KindOfAccessor(acc) # KindName(KindOfConstructor(call.op))
                  => Access(acc, mem, ret.ptr.val, TRUE) = Panic

\* C2: TruncatedLogOffset::from_u64(n) succeeds exactly when n < 2^48, and
\* to_lid() of what it returns is n.
C2_OffsetBound ==
    call.op = "TLO_from_u64" =>
        /\ ret.t.ok <=> Below48(call.n)
        /\ ret.t.ok => (ret.back.ok /\ ret.back.val = call.n)

\* C5: exists_on_segment(segment, segment_size, pid), segment_size > 0, is
\* true exactly when some offset of iter_lids(pid) lies in the segment.
C5_SegmentMembership ==
    (call.op = "exists_on_segment" /\ call.segment_size > 0) =>
        LET lids == iter_lids(mem, read(call.p).val, call.pid).val
        IN  /\ ret.exists.ok
            /\ ret.exists.val = (\E i \in 1..Len(lids) :
                            Div(lids[i], call.segment_size)
                                = Div(call.segment, call.segment_size))

\* The offsets the spec's enumeration yields for the called pointer, from the
\* description the pointer and its record were built from.
ExpectedLids ==
    CASE call.variant = "Heap" -> <<>>
      [] call.variant \in {"Log", "Free", "LogAndHeap"} -> <<call.off>>
      [] call.variant \in {"Meta", "Counter"} -> DescLid(call.base)
      [] call.variant = "Node" -> DescLid(call.base) \o FlatLids(call.frags)

\* C6: iter_lids(pid) yields nothing for Heap, the embedded offset for Free
\* and Log, the record's offset for LogAndHeap, the base's offset for the
\* meta and counter records, and for a node its base's offset followed by
\* the offsets of its fragments that carry one, in insertion order.
C6_LidEnumeration ==
    call.op = "iter_lids" => (ret.lids.ok /\ ret.lids.val = ExpectedLids)

\* A node with a base offset and three fragments, one of them heap-only,
\* whose enumeration gave the base's offset and then the two fragments'.
C6_Witness ==
    /\ call.op = "iter_lids"
    /\ call.variant = "Node"
    /\ call.base = [k |-> Log, off |-> <<2048, 0, 0, 0>>]
    /\ call.frags = <<[k |-> Log, off |-> <<1024, 0, 0, 0>>],
                      [k |-> Heap, off |-> <<2048, 0, 0, 0>>],
                      [k |-> Free, off |-> <<0, 1, 0, 0>>]>>
    /\ ret.lids.ok
    /\ ret.lids.val = <<<<2048, 0, 0, 0>>, <<1024, 0, 0, 0>>, <<0, 1, 0, 0>>>>

\* C7: read() on a pointer whose kind byte is not one of the five defined
\* kinds fails; it returns no variant.
C7_UndefinedDiscriminant ==
    (call.op = "read" /\ KindByte(call.p) \notin DefinedKinds) => ~ret.read.ok

\* C8: a kind-specific accessor returns a value only on the decoded variant
\* it is specific to, and panics on every other.
C8_KindMismatchFailsFast ==
    call.op = "accessor" =>
        /\ ret.got.ok => KindName(KindByte(call.p)) = KindOfAccessor(call.acc)
        /\ KindName(KindByte(call.p)) # KindOfAccessor(call.acc) => ret.got = Panic

\* as_node was called on a LogAndHeap pointer and panicked.
C8_Witness ==
    /\ call.op = "accessor"
    /\ call.acc = "as_node"
    /\ KindByte(call.p) = LogAndHeap
    /\ ret.got = Panic

HeapRoundTrips ==
    /\ ret.p.ok
    /\ KindByte(ret.p.val) = Heap
    /\ ret.hid.ok
    /\ ret.hid.val = call.heap_id
    /\ ret.sz.ok
    \* no u64 is 2^64 or more
    /\ call.heap_id.slab + MIN_TRAILING_ZEROS <= 63
    /\ ret.sz.val = TwoTo(call.heap_id.slab + MIN_TRAILING_ZEROS)

\* C9 as stated: for every HeapId h, new_heap(h) is a Heap pointer whose
\* heap_id() is h and whose log_size() is 2^(h.slab + MIN_TRAILING_ZEROS).
C9_HeapRoundTrip ==
    call.op = "heap_round_trip" => HeapRoundTrips

\* C9 amended: the same for every HeapId h with
\* h.slab + MIN_TRAILING_ZEROS <= 63, the sizes a u64 holds.
C9_HeapRoundTripInRange ==
    (call.op = "heap_round_trip" /\ call.heap_id.slab + MIN_TRAILING_ZEROS <= 63)
        => HeapRoundTrips

\* HeapId{slab: 2, index: 7} came back unchanged, with size 2^(2 + MIN_TRAILING_ZEROS).
C9_Witness ==
    /\ call.op = "heap_round_trip"
    /\ call.heap_id = [slab |-> 2, index |-> <<7, 0>>]
    /\ ret.hid = Ok([slab |-> 2, index |-> <<7, 0>>])
    /\ ret.sz = Ok(<<0, 2, 0, 0>>)

\* n <= s < 2n for the size s of n's class, and s = 1 for n = 0.
SizeBound(n, r) ==
    /\ r.class.ok
    /\ r.size.ok
    /\ IF IsZero(n) THEN r.size.val = <<1, 0, 0, 0>>
       ELSE /\ Le(Widen(n, 4), r.size.val)
            /\ Lt(Widen(r.size.val, 5), Dbl(Widen(n, 4)))

\* n is at most 2^(w-1), the largest power of two of its type.
HasNextPowerOfTwo(n) == Le(n, Pow2(Width(n) - 1, Len(n)))

\* C10 as stated: SizeClass::from(n) succeeds for every n of each integer
\* type, with n <= size() < 2n (size 1 for n = 0), so that size() is monotone.
C10_SizeClassBound ==
    call.op = "SizeClass_from" =>
        /\ SizeBound(call.n1, ret.r1)
        /\ SizeBound(call.n2, ret.r2)
        /\ Le(call.n1, call.n2) => Le(ret.r1.size.val, ret.r2.size.val)

\* C10 amended: the same for every n <= 2^(w-1) of a type of width w.
C10_SizeClassBoundInRange ==
    call.op = "SizeClass_from" =>
        /\ HasNextPowerOfTwo(call.n1) => SizeBound(call.n1, ret.r1)
        /\ HasNextPowerOfTwo(call.n2) => SizeBound(call.n2, ret.r2)
        /\ (HasNextPowerOfTwo(call.n2) /\ Le(call.n1, call.n2))
              => Le(ret.r1.size.val, ret.r2.size.val)

\* 5 was given the class of size 8 and 2^16 + 1 the class of size 2^17.
C10_Witness ==
    /\ call.op = "SizeClass_from"
    /\ call.n1 = <<5, 0, 0, 0>>
    /\ call.n2 = <<1, 1, 0, 0>>
    /\ ret.r1.size = Ok(<<8, 0, 0, 0>>)
    /\ ret.r2.size = Ok(<<0, 2, 0, 0>>)

(***************************************************************************)
(* The page table's use of the pointer: threads pin a guard, load the      *)
(* slot, decode it, replace it by compare-and-swap and hand the old value  *)
(* to defer_destroy.  The guard and the reclamation of deferred records    *)
(* are the reclamation subsystem's: a record handed over is destroyed once *)
(* every guard that was active at the hand-over has been released.         *)
(***************************************************************************)
TableSpecInit ==
    /\ call = Idle
    /\ ret = NoRet
    /\ mem = [a \in TableAddrs |-> NoRecord]
    /\ TableInit

OwnsRecord(p) == KindByte(p) \in {InMemory, LogAndHeap}
AddrOf(p) == read(p).val.ptr

\* The pointers a replacement may install without allocating.
DataPointers == {FreeAtZero, MkPtr(<<7, 0, 0, 0, 0, 0>>, 17, Heap)}

Pin(t) ==
    /\ pc[t] = "idle"
    /\ pinned' = [pinned EXCEPT ![t] = TRUE]
    /\ pc' = [pc EXCEPT ![t] = "pinned"]
    /\ UNCHANGED <<call, ret, mem, slot, status, pending, handed, superseded, obs>>

Load(t) ==
    /\ pc[t] = "pinned"
    /\ obs' = [obs EXCEPT ![t] = slot]
    /\ pc' = [pc EXCEPT ![t] = "loaded"]
    /\ UNCHANGED <<call, ret, mem, slot, status, pending, handed, superseded, pinned>>

\* The slot's value p is replaced.
Supersede(p) ==
    IF OwnsRecord(p) THEN [superseded EXCEPT ![AddrOf(p)] = TRUE] ELSE superseded

\* compare-and-swap to a pointer that owns no record.
ReplaceByData(t) ==
    /\ pc[t] = "loaded"
    /\ slot = obs[t]
    /\ \E p \in DataPointers \ {slot} :
          slot' = p
    /\ superseded' = Supersede(slot)
    /\ pc' = [pc EXCEPT ![t] = "swapped"]
    /\ UNCHANGED <<call, ret, mem, status, pending, handed, pinned, obs>>

\* compare-and-swap to a pointer to a newly allocated record.
ReplaceByRecord(t) ==
    /\ pc[t] = "loaded"
    /\ slot = obs[t]
    /\ \E a \in TableAddrs, k \in {InMemory, LogAndHeap} :
          /\ status[a] = "free"
          /\ slot' = MkPtr(to_le_bytes(a), 17, k)
          /\ mem' = [mem EXCEPT ![a] =
                        IF k = InMemory
                        THEN NodeRec([k |-> Log, off |-> <<2048, 0, 0, 0>>], <<>>)
                        ELSE LahRec(<<2048, 0, 0, 0>>, [slab |-> 2, index |-> <<7, 0>>])]
          /\ status' = [status EXCEPT ![a] = "live"]
          /\ handed' = [handed EXCEPT ![a] = 0]
          /\ superseded' = [Supersede(slot) EXCEPT ![a] = FALSE]
    /\ pc' = [pc EXCEPT ![t] = "swapped"]
    /\ UNCHANGED <<call, ret, pending, pinned, obs>>

\* The compare-and-swap fails: another thread replaced the value first.
ReplaceFails(t) ==
    /\ pc[t] = "loaded"
    /\ slot # obs[t]
    /\ pc' = [pc EXCEPT ![t] = "pinned"]
    /\ UNCHANGED <<call, ret, mem, slot, status, pending, handed, superseded, pinned, obs>>

\* After its successful swap the thread calls defer_destroy on the old
\* value, under its guard.
DeferOld(t) ==
    /\ pc[t] = "swapped"
    /\ LET eff == defer_destroy(read(obs[t]).val)
       IN  /\ status' = [a \in TableAddrs |->
                            IF a \in eff.dropped THEN "free"
                            ELSE IF a \in eff.deferred THEN "retired" ELSE status[a]]
           /\ mem' = [a \in TableAddrs |-> IF a \in eff.dropped THEN NoRecord ELSE mem[a]]
           /\ pending' = [a \in TableAddrs |->
                            IF a \in eff.deferred THEN {u \in Threads : pinned[u]}
                            ELSE pending[a]]
           /\ handed' = [a \in TableAddrs |->
                            IF a \in eff.deferred \cup eff.dropped THEN handed[a] + 1
                            ELSE handed[a]]
    /\ pc' = [pc EXCEPT ![t] = "pinned"]
    /\ UNCHANGED <<call, ret, slot, superseded, pinned, obs>>

\* The guard is dropped.
Unpin(t) ==
    /\ pc[t] \in {"pinned", "loaded"}
    /\ pinned' = [pinned EXCEPT ![t] = FALSE]
    /\ pending' = [a \in TableAddrs |-> pending[a] \ {t}]
    /\ obs' = [obs EXCEPT ![t] = FreeAtZero]
    /\ pc' = [pc EXCEPT ![t] = "idle"]
    /\ UNCHANGED <<call, ret, mem, slot, status, handed, superseded>>

\* The reclamation subsystem destroys a record no guard still waits on.
Reclaim(a) ==
    /\ status[a] = "retired"
    /\ pending[a] = {}
    /\ status' = [status EXCEPT ![a] = "free"]
    /\ mem' = [mem EXCEPT ![a] = NoRecord]
    /\ UNCHANGED <<call, ret, slot, pending, handed, superseded, pinned, pc, obs>>

\* forget_heap_log_coordinates on the slot's pointer, by a thread holding a guard.
Forget(t) ==
    /\ pc[t] = "pinned"
    /\ \E oc \in Bool :
          LET p == forget_heap_log_coordinates(mem, slot, oc)
          IN  /\ p.ok
              /\ p.val # slot
              /\ slot' = p.val
    /\ superseded' = Supersede(slot)
    /\ UNCHANGED <<call, ret, mem, status, pending, handed, pinned, pc, obs>>

TableNext ==
    \/ \E t \in Threads :
          \/ Pin(t)
          \/ Load(t)
          \/ ReplaceByData(t)
          \/ ReplaceByRecord(t)
          \/ ReplaceFails(t)
          \/ DeferOld(t)
          \/ Unpin(t)
          \/ Forget(t)
    \/ \E a \in TableAddrs : Reclaim(a)

TableSpec == TableSpecInit /\ [][TableNext]_vars

(***************************************************************************)
(* Properties of the page table's use                                      *)
(***************************************************************************)
\* Thread t holds a guard under which it observed the pointer obs[t].
Observes(t) == pc[t] \in {"loaded", "swapped"}

\* The record the pointer p addresses can be dereferenced.
Dereferenceable(p) ==
    IF KindByte(p) = InMemory THEN as_node(mem, read(p).val).ok
    ELSE as_log_and_heap(mem, read(p).val).ok

\* C3: a record addressed by an InMemory or LogAndHeap pointer is not
\* destroyed while a thread holds a guard under which it observed the
\* pointer; in particular handing it to defer_destroy does not destroy it.
C3_NoUseAfterFree ==
    \A t \in Threads :
        (Observes(t) /\ OwnsRecord(obs[t])) =>
            /\ status[AddrOf(obs[t])] \in {"live", "retired"}
            /\ Dereferenceable(obs[t])

\* A thread still holds its guard on a pointer whose record another thread
\* has replaced and handed to defer_destroy.
C3_Witness ==
    \E t \in Threads :
        /\ pc[t] = "loaded"
        /\ OwnsRecord(obs[t])
        /\ slot # obs[t]
        /\ status[AddrOf(obs[t])] = "retired"
        /\ handed[AddrOf(obs[t])] = 1
        /\ t \in pending[AddrOf(obs[t])]

\* No thread is between its successful replacement and its defer_destroy.
Settled == \A t \in Threads : pc[t] # "swapped"

\* C4: once the replacements are done, every superseded InMemory or
\* LogAndHeap pointer's record has been handed over exactly once; no record
\* is ever handed over twice, and defer_destroy hands over nothing for the
\* other kinds.
C4_ExactlyOnce ==
    /\ \A a \in TableAddrs :
          /\ handed[a] <= 1
          /\ (Settled /\ superseded[a]) => handed[a] = 1
    /\ \A p \in DataPointers : defer_destroy(read(p).val).deferred = {}

====
